---- MODULE Spec2Model ----
(***************************************************************************)
(* Model of the revenue analysis and target-setting engine:                *)
(*   notebook_2/advanced_revenue_optimization_analysis.py                  *)
(*       AdvancedRevenueAnalyzer.analyze_revenue_potential                 *)
(*       AdvancedRevenueAnalyzer.optimize_peak_scheduling                  *)
(*   notebook_2/qualitative_target_revenue_optimization.py                 *)
(*       QuantitativeTargets.calculate_revenue_targets and its helpers     *)
(*                                                                         *)
(* Numbers.  The program computes in IEEE doubles.  A double is modelled   *)
(* as a record [k, n, d]: k = "num" is the exact rational n/d (d > 0, in   *)
(* lowest terms), k = "nan", "inf", "ninf" are the three special values.   *)
(* Rounding is not modelled; the special values and the way comparisons    *)
(* and divisions treat them are.  Risk factors are rationals r/100.        *)
(***************************************************************************)
EXTENDS Integers, Sequences, FiniteSets, TLC

VARIABLES
    allocation,        \* the seat allocation: booking class -> seats
    pricing,           \* the pricing records
    pc,                \* where the running call stands
    error,             \* the exception that ended the call, if one did
    revenue_analysis,  \* the table of analyze_revenue_potential
    sorted_classes,    \* optimize_peak_scheduling: the sorted index
    pos,               \* optimize_peak_scheduling: the loop position
    time_slots,        \* optimize_peak_scheduling: the four buckets
    current,           \* calculate_revenue_targets: current_metrics
    tiers,             \* _set_class_targets: high, mid and low yield
    targets,           \* calculate_revenue_targets: the targets dict
    features_df        \* suggest_class_consolidation: the clustered classes

vars == <<allocation, pricing, pc, error, revenue_analysis, sorted_classes,
          pos, time_slots, current, tiers, targets, features_df>>

schedVars == <<sorted_classes, pos, time_slots>>

targetVars == <<current, tiers, targets>>

-----------------------------------------------------------------------------
(* Bounds of the model and the inputs drawn at Init.                       *)

\* largest number of booking classes in an allocation
MaxClasses == 4

\* booking-class identifiers, in ascending identifier order
BookingClasses == <<"C", "J", "Q", "Y">>

ClassSet == {BookingClasses[i] : i \in 1..Len(BookingClasses)}

\* position of a class in ascending identifier order
Rank(c) == CHOOSE i \in 1..Len(BookingClasses) : BookingClasses[i] = c

\* largest seat count of a class, in blocks of 100 seats
MaxSeatBlocks == 2

\* seat counts an allocation may give a class
SeatChoices == {0, 20} \cup {100 * b : b \in 1..MaxSeatBlocks}

-----------------------------------------------------------------------------
(* Doubles.                                                                *)

Abs(x) == IF x < 0 THEN -x ELSE x

RECURSIVE GCD(_, _)
GCD(a, b) == IF b = 0 THEN a ELSE GCD(b, a % b)

\* the rational n/d, d # 0, in lowest terms with a positive denominator
Rat(n, d) ==
    LET g == GCD(Abs(n), Abs(d))
        s == IF d < 0 THEN -1 ELSE 1
    IN  [k |-> "num", n |-> (s * n) \div g, d |-> Abs(d) \div g]

NaN  == [k |-> "nan",  n |-> 0, d |-> 1]
PInf == [k |-> "inf",  n |-> 0, d |-> 1]
NInf == [k |-> "ninf", n |-> 0, d |-> 1]

FInt(i) == Rat(i, 1)

IsNaN(x) == x.k = "nan"

\* x + y, x - y, x * y on finite values; nan propagates
FAdd(x, y) ==
    IF x.k = "num" /\ y.k = "num" THEN Rat(x.n * y.d + y.n * x.d, x.d * y.d)
    ELSE NaN

FSub(x, y) ==
    IF x.k = "num" /\ y.k = "num" THEN Rat(x.n * y.d - y.n * x.d, x.d * y.d)
    ELSE NaN

FMul(x, y) ==
    IF x.k = "num" /\ y.k = "num" THEN Rat(x.n * y.n, x.d * y.d)
    ELSE NaN

\* x / y as numpy divides two float64 scalars: a zero divisor gives
\* inf, -inf or nan (with a RuntimeWarning), never an exception
NpDiv(x, y) ==
    IF x.k # "num" \/ y.k # "num" THEN NaN
    ELSE IF y.n = 0
         THEN (IF x.n > 0 THEN PInf ELSE IF x.n < 0 THEN NInf ELSE NaN)
         ELSE Rat(x.n * y.d, x.d * y.n)

\* x < y; every comparison with nan is false
FLt(x, y) ==
    /\ x.k # "nan"
    /\ y.k # "nan"
    /\ CASE x.k = "ninf" -> y.k # "ninf"
         [] x.k = "inf"  -> FALSE
         [] OTHER        -> \/ y.k = "inf"
                            \/ (y.k = "num" /\ x.n * y.d < y.n * x.d)

FGt(x, y) == FLt(y, x)

FLe(x, y) == x.k # "nan" /\ y.k # "nan" /\ ~FLt(y, x)

FGe(x, y) == FLe(y, x)

FEq(x, y) == FLe(x, y) /\ FLe(y, x)

FMin(x, y) == IF FLt(y, x) THEN y ELSE x

-----------------------------------------------------------------------------
(* Sequences.                                                              *)

Range(s) == {s[i] : i \in 1..Len(s)}

IsInjective(s) == \A i, j \in 1..Len(s) : i # j => s[i] # s[j]

RECURSIVE FSum(_)
FSum(s) == IF s = <<>> THEN FInt(0) ELSE FAdd(s[1], FSum(Tail(s)))

RECURSIVE ISum(_)
ISum(s) == IF s = <<>> THEN 0 ELSE s[1] + ISum(Tail(s))

-----------------------------------------------------------------------------
(* Inputs.                                                                 *)

PricingRecord(c, base, peak, off, riskPct) ==
    [Booking_Class |-> c, Base_Fare |-> base, Peak_Price |-> peak,
     Off_Peak_Price |-> off, Risk_Factor |-> Rat(riskPct, 100)]

\* the pricing records a class may have; <<>> is "no record"
PricingOptions(c) ==
    CASE c = "Y" -> { <<PricingRecord("Y", 200, 260, 150, 10)>>,
                      <<PricingRecord("Y", 100, 100, 0, 0)>> }
      [] c = "J" -> { <<PricingRecord("J", 500, 650, 400, 5)>>,
                      <<PricingRecord("J", 120, 120, 100, 0)>> }
      [] c = "C" -> { <<PricingRecord("C", 120, 120, 100, 0)>>,
                      <<PricingRecord("C", 230, 115, 100, 0)>> }
      [] OTHER   -> { <<PricingRecord(c, 80, 110, 100, 0)>>,
                      <<PricingRecord(c, 80, 110, 100, 90)>>,
                      << >> }

RECURSIVE Flatten(_)
Flatten(ss) == IF ss = <<>> THEN <<>> ELSE ss[1] \o Flatten(Tail(ss))

\* the pricing tables: one optional record per class, in class order
PricingTables ==
    { Flatten(q) :
        q \in { p \in [1..Len(BookingClasses) ->
                         UNION {PricingOptions(c) : c \in ClassSet}] :
                  \A i \in 1..Len(BookingClasses) :
                      p[i] \in PricingOptions(BookingClasses[i]) } }

\* key orders of an allocation: the classes of a set, inserted in
\* ascending or in descending identifier order
KeyOrders ==
    { s \in UNION {[1..n -> ClassSet] : n \in 0..MaxClasses} :
        \/ \A i \in 1..(Len(s) - 1) : Rank(s[i]) < Rank(s[i + 1])
        \/ \A i \in 1..(Len(s) - 1) : Rank(s[i]) > Rank(s[i + 1]) }

\* an allocation is an insertion-ordered dict: a sequence of
\* [cls, seats] with distinct keys
Allocations ==
    UNION { { [i \in 1..Len(ks) |-> [cls |-> ks[i], seats |-> f[i]]] :
                f \in [1..Len(ks) -> SeatChoices] } : ks \in KeyOrders }

Keys(alloc) == [i \in 1..Len(alloc) |-> alloc[i].cls]

-----------------------------------------------------------------------------
(* AdvancedRevenueAnalyzer.analyze_revenue_potential                       *)

\* pricing_df[pricing_df['Booking_Class'] == booking_class]
PricingRows(prc, c) == SelectSeq(prc, LAMBDA r : r.Booking_Class = c)

\* the row of one class as it would be with the two risk multipliers
\* exchanged: 1.2 on the peak revenue, 0.8 on the off-peak revenue
RevenueRowSwapped(seats, class_data) ==
    LET risk == class_data.Risk_Factor
        optimal_revenue ==
            FMul(FMul(FInt(seats), FInt(class_data.Base_Fare)),
                 FSub(FInt(1), risk))
        peak_revenue ==
            FMul(FMul(FInt(seats), FInt(class_data.Peak_Price)),
                 FSub(FInt(1), FMul(risk, Rat(12, 10))))
        off_peak_revenue ==
            FMul(FMul(FInt(seats), FInt(class_data.Off_Peak_Price)),
                 FSub(FInt(1), FMul(risk, Rat(8, 10))))
    IN  [Seats            |-> seats,
         Base_Revenue     |-> optimal_revenue,
         Peak_Revenue     |-> peak_revenue,
         Off_Peak_Revenue |-> off_peak_revenue,
         Revenue_Range    |-> FSub(peak_revenue, off_peak_revenue),
         Risk_Factor      |-> risk,
         Revenue_per_Seat |-> NpDiv(optimal_revenue, FInt(seats))]

\* the row of one class; the fares and the risk factor are numpy scalars,
\* so optimal_revenue / seats is a float64 division
RevenueRow(seats, class_data) ==
    LET risk == class_data.Risk_Factor
        optimal_revenue ==
            FMul(FMul(FInt(seats), FInt(class_data.Base_Fare)),
                 FSub(FInt(1), risk))
        peak_revenue ==
            FMul(FMul(FInt(seats), FInt(class_data.Peak_Price)),
                 FSub(FInt(1), FMul(risk, Rat(8, 10))))
        off_peak_revenue ==
            FMul(FMul(FInt(seats), FInt(class_data.Off_Peak_Price)),
                 FSub(FInt(1), FMul(risk, Rat(12, 10))))
    IN  [Seats            |-> seats,
         Base_Revenue     |-> optimal_revenue,
         Peak_Revenue     |-> peak_revenue,
         Off_Peak_Revenue |-> off_peak_revenue,
         Revenue_Range    |-> FSub(peak_revenue, off_peak_revenue),
         Risk_Factor      |-> risk,
         Revenue_per_Seat |-> NpDiv(optimal_revenue, FInt(seats))]

\* the classes of the allocation that have no pricing record, in key order
MissingKeys(alloc, prc) ==
    SelectSeq(Keys(alloc), LAMBDA c : PricingRows(prc, c) = <<>>)

EmptyTable == [index |-> <<>>, rows |-> <<>>]

\* analyze_revenue_potential as it would be with the classes that have no
\* pricing record skipped instead of looked up
AnalyzeSkipsMissing(alloc, prc) ==
    LET priced == SelectSeq(alloc, LAMBDA a : PricingRows(prc, a.cls) # <<>>)
    IN  [raised |-> "", at |-> "",
         table |-> [index |-> Keys(priced),
                    rows  |-> [i \in 1..Len(priced) |->
                                RevenueRow(priced[i].seats,
                                           PricingRows(prc, priced[i].cls)[1])]]]

\* the outcome of the call: .iloc[0] of an empty selection raises
\* IndexError at the first key without a record, and the dict built so
\* far is dropped; otherwise the table, one row per key, in key order
AnalyzeRevenuePotential(alloc, prc) ==
    IF MissingKeys(alloc, prc) # <<>>
    THEN [raised |-> "IndexError", at |-> MissingKeys(alloc, prc)[1],
          table |-> EmptyTable]
    ELSE [raised |-> "", at |-> "",
          table |-> [index |-> Keys(alloc),
                     rows  |-> [i \in 1..Len(alloc) |->
                                 RevenueRow(alloc[i].seats,
                                            PricingRows(prc, alloc[i].cls)[1])]]]

\* revenue_analysis.loc[booking_class]
Loc(table, c) ==
    table.rows[CHOOSE i \in 1..Len(table.index) : table.index[i] = c]

-----------------------------------------------------------------------------
(* AdvancedRevenueAnalyzer.suggest_class_consolidation                     *)

\* n_clusters of the KMeans
NClusters == 5

\* class_features: one row per key of the allocation, in key order
ClassFeatures(alloc, prc) ==
    [i \in 1..Len(alloc) |->
        LET class_data == PricingRows(prc, alloc[i].cls)[1]
        IN  [Booking_Class   |-> alloc[i].cls,
             Base_Fare       |-> class_data.Base_Fare,
             Risk_Factor     |-> class_data.Risk_Factor,
             Allocated_Seats |-> alloc[i].seats]]

\* the label vectors KMeans(n_clusters=5).fit_predict may return for n
\* samples: one label in 0 .. n_clusters - 1 per sample.  Which label a
\* sample gets depends on the standardized features and the seeded
\* initialisation; every labelling is taken as possible
KMeansLabels(n) == [1..n -> 0..(NClusters - 1)]

\* the outcomes of the call.  A key without a pricing record raises
\* IndexError at .iloc[0]; the frame of an empty allocation has no
\* feature columns (KeyError); KMeans refuses fewer samples than
\* clusters (ValueError: n_samples should be >= n_clusters); otherwise
\* features_df with its Cluster column
SuggestClassConsolidation(alloc, prc) ==
    IF MissingKeys(alloc, prc) # <<>>
    THEN {[raised |-> "IndexError", at |-> MissingKeys(alloc, prc)[1],
           value |-> <<>>]}
    ELSE IF Len(alloc) = 0
    THEN {[raised |-> "KeyError", at |-> "", value |-> <<>>]}
    ELSE IF Len(alloc) < NClusters
    THEN {[raised |-> "ValueError", at |-> "", value |-> <<>>]}
    ELSE {[raised |-> "", at |-> "",
           value |-> [i \in 1..Len(alloc) |->
                        [Booking_Class   |-> ClassFeatures(alloc, prc)[i].Booking_Class,
                         Base_Fare       |-> ClassFeatures(alloc, prc)[i].Base_Fare,
                         Risk_Factor     |-> ClassFeatures(alloc, prc)[i].Risk_Factor,
                         Allocated_Seats |-> ClassFeatures(alloc, prc)[i].Allocated_Seats,
                         Cluster         |-> labels[i]]]] :
            labels \in KMeansLabels(Len(alloc))}

-----------------------------------------------------------------------------
(* AdvancedRevenueAnalyzer.optimize_peak_scheduling                        *)

\* x is placed strictly before y by sort_values(ascending=False): larger
\* values first, nan last
SortsBefore(x, y) == (~IsNaN(x) /\ IsNaN(y)) \/ FGt(x, y)

\* the orders sort_values('Revenue_per_Seat', ascending=False) may return.
\* The default kind is quicksort, which is not stable: rows with equal
\* keys come out in an order the call does not fix
SortValues(table) ==
    { s \in [1..Len(table.index) -> Range(table.index)] :
        /\ IsInjective(s)
        /\ \A i, j \in 1..Len(s) :
              i < j => ~SortsBefore(Loc(table, s[j]).Revenue_per_Seat,
                                    Loc(table, s[i]).Revenue_per_Seat) }

EmptySlots ==
    [Morning_Peak |-> <<>>, Midday |-> <<>>, Evening_Peak |-> <<>>,
     Off_Peak |-> <<>>]

SlotNames == {"Morning_Peak", "Midday", "Evening_Peak", "Off_Peak"}

\* the divisor of the Morning_Peak quota
MorningDivisor == 4

PeakRatio(revenue_data) ==
    NpDiv(revenue_data.Peak_Revenue, revenue_data.Off_Peak_Revenue)

\* the loop body as it would be with <= in place of < at the quota test
SlotForQuotaInclusive(peak_ratio, morning_len, total) ==
    IF FGt(peak_ratio, Rat(12, 10))
    THEN (IF morning_len <= total \div MorningDivisor
          THEN "Morning_Peak" ELSE "Evening_Peak")
    ELSE IF FGt(peak_ratio, Rat(11, 10)) THEN "Midday"
    ELSE "Off_Peak"

\* the loop body as it would be with >= in place of > at both thresholds
SlotForInclusive(peak_ratio, morning_len, total) ==
    IF FGe(peak_ratio, Rat(12, 10))
    THEN (IF morning_len < total \div MorningDivisor
          THEN "Morning_Peak" ELSE "Evening_Peak")
    ELSE IF FGe(peak_ratio, Rat(11, 10)) THEN "Midday"
    ELSE "Off_Peak"

\* the if / elif / else of the loop body: the bucket of a class with this
\* peak_ratio when Morning_Peak holds morning_len of total classes
SlotFor(peak_ratio, morning_len, total) ==
    IF FGt(peak_ratio, Rat(12, 10))
    THEN (IF morning_len < total \div MorningDivisor
          THEN "Morning_Peak" ELSE "Evening_Peak")
    ELSE IF FGt(peak_ratio, Rat(11, 10)) THEN "Midday"
    ELSE "Off_Peak"

-----------------------------------------------------------------------------
(* QuantitativeTargets                                                     *)

\* a dict is a sequence of [key, value] in insertion order
DictKeys(d) == [i \in 1..Len(d) |-> d[i].key]

DictValues(d) == [i \in 1..Len(d) |-> d[i].value]

\* seats of the aircraft that current_occupancy is measured against
Capacity == 400

\* analyze_current_performance.  The table of an empty allocation has no
\* Base_Revenue column (KeyError).  sum() over a Series adds Python
\* floats, so dividing by a seat total of 0 raises ZeroDivisionError
AnalyzeCurrentPerformance(table, alloc, prc) ==
    LET total_revenue ==
            FSum([i \in 1..Len(table.index) |-> table.rows[i].Base_Revenue])
        total_seats == ISum([i \in 1..Len(alloc) |-> alloc[i].seats])
    IN  IF table.index = <<>>
        THEN [raised |-> "KeyError", value |-> <<>>]
        ELSE IF total_seats = 0
        THEN [raised |-> "ZeroDivisionError", value |-> <<>>]
        ELSE [raised |-> "",
              value |-> <<[
                total_revenue |-> total_revenue,
                avg_revenue_per_seat |->
                    NpDiv(total_revenue, FInt(total_seats)),
                class_performance |->
                    [i \in 1..Len(table.index) |->
                        [key |-> table.index[i],
                         value |-> table.rows[i].Revenue_per_Seat]],
                risk_rates |->
                    [i \in 1..Len(prc) |->
                        [key |-> prc[i].Booking_Class,
                         value |-> prc[i].Risk_Factor]],
                current_occupancy |-> Rat(total_seats, Capacity)]>>]

\* _set_overall_targets
SetOverallTargets(cur) ==
    [current_daily_revenue   |-> cur.total_revenue,
     target_daily_revenue    |-> FMul(cur.total_revenue, Rat(115, 100)),
     revenue_improvement     |-> FMul(cur.total_revenue, Rat(15, 100)),
     target_revenue_per_seat |-> FMul(cur.avg_revenue_per_seat, Rat(115, 100)),
     timeframe               |-> "Next 6 months",
     key_metrics |->
        [current_rev_per_seat |-> cur.avg_revenue_per_seat,
         target_rev_per_seat  |-> FMul(cur.avg_revenue_per_seat, Rat(115, 100)),
         improvement_percentage |-> "15%"]]

\* the three dict comprehensions of _set_class_targets
HighYield(cur) ==
    SelectSeq(cur.class_performance, LAMBDA e :
        FGt(e.value, FMul(cur.avg_revenue_per_seat, Rat(12, 10))))

MidYield(cur) ==
    SelectSeq(cur.class_performance, LAMBDA e :
        /\ FLe(FMul(cur.avg_revenue_per_seat, Rat(8, 10)), e.value)
        /\ FLe(e.value, FMul(cur.avg_revenue_per_seat, Rat(12, 10))))

LowYield(cur) ==
    SelectSeq(cur.class_performance, LAMBDA e :
        FLt(e.value, FMul(cur.avg_revenue_per_seat, Rat(8, 10))))

ClassTiers(cur) ==
    [premium |-> HighYield(cur), mid_tier |-> MidYield(cur),
     economy |-> LowYield(cur)]

TierOrder == <<"premium", "mid_tier", "economy">>

ImprovementTarget(class_type) ==
    IF class_type = "premium" THEN Rat(20, 100)
    ELSE IF class_type = "mid_tier" THEN Rat(15, 100) ELSE Rat(10, 100)

\* _get_class_actions
GetClassActions(class_type) ==
    CASE class_type = "premium" ->
           <<"Increase base fare by 10-15% during peak hours",
             "Implement loyalty program benefits",
             "Add premium services",
             "Reduce risk rate to 5%">>
      [] class_type = "mid_tier" ->
           <<"Optimize pricing with 5-10% increases",
             "Implement flexible booking conditions",
             "Target 85% occupancy rate",
             "Reduce risk rate to 10%">>
      [] OTHER ->
           <<"Dynamic pricing based on demand",
             "Implement advance purchase discounts",
             "Target 80% occupancy rate",
             "Manage risk rate to 15%">>

\* the entry of one tier; len(classes) is not 0 here.  target_increase is
\* kept as the number improvement_target * 100, not as the string
ClassTarget(class_type, classes) ==
    [classes           |-> DictKeys(classes),
     current_average   |-> NpDiv(FSum(DictValues(classes)),
                                 FInt(Len(classes))),
     target_increase   |-> FMul(ImprovementTarget(class_type), FInt(100)),
     target_revenue    |->
        [i \in 1..Len(classes) |->
            [key |-> classes[i].key,
             value |-> FMul(classes[i].value,
                            FAdd(FInt(1), ImprovementTarget(class_type)))]],
     suggested_actions |-> GetClassActions(class_type)]

\* the tiers without a member, in the order the loop visits them
EmptyTiers(trs) == SelectSeq(TierOrder, LAMBDA t : trs[t] = <<>>)

\* _set_class_targets: sum(classes.values()) / len(classes) divides two
\* Python numbers, so the first tier without a member raises
\* ZeroDivisionError and no class_targets is returned
SetClassTargets(cur) ==
    LET trs == ClassTiers(cur)
    IN  IF EmptyTiers(trs) # <<>>
        THEN [raised |-> "ZeroDivisionError", at |-> EmptyTiers(trs)[1],
              value |-> <<>>]
        ELSE [raised |-> "", at |-> "",
              value |-> <<[t \in Range(TierOrder) |-> ClassTarget(t, trs[t])]>>]

\* _set_time_targets: a constant table
SetTimeTargets(cur) ==
    [peak_morning |-> [target_occupancy |-> Rat(95, 100),
                       target_premium_mix |-> Rat(40, 100),
                       revenue_premium |-> Rat(125, 100)],
     midday       |-> [target_occupancy |-> Rat(85, 100),
                       target_premium_mix |-> Rat(30, 100),
                       revenue_premium |-> Rat(115, 100)],
     evening_peak |-> [target_occupancy |-> Rat(90, 100),
                       target_premium_mix |-> Rat(35, 100),
                       revenue_premium |-> Rat(120, 100)],
     off_peak     |-> [target_occupancy |-> Rat(75, 100),
                       target_premium_mix |-> Rat(25, 100),
                       revenue_premium |-> Rat(110, 100)]]

PremiumCodes == {"J", "Y"}

MidTierCodes == {"C", "B", "D", "W", "H"}

\* sum(v for k, v in risk_rates.items() if k in codes)
RiskSum(risk_rates, codes) ==
    FSum(DictValues(SelectSeq(risk_rates, LAMBDA e : e.key \in codes)))

\* _set_risk_targets: the divisors are len(risk_rates), 2, 5 and
\* len(risk_rates) - 7; a divisor of 0 raises ZeroDivisionError
SetRiskTargets(cur) ==
    LET rr == cur.risk_rates
        n  == Len(rr)
        avg_risk == NpDiv(FSum(DictValues(rr)), FInt(n))
    IN  IF n = 0 \/ n - 7 = 0
        THEN [raised |-> "ZeroDivisionError", value |-> <<>>]
        ELSE [raised |-> "",
              value |-> <<[
                current_avg_risk |-> avg_risk,
                target_avg_risk  |-> FMul(avg_risk, Rat(85, 100)),
                by_class_type |->
                  [premium  |-> [current |-> NpDiv(RiskSum(rr, PremiumCodes),
                                                   FInt(2)),
                                 target  |-> Rat(5, 100)],
                   mid_tier |-> [current |-> NpDiv(RiskSum(rr, MidTierCodes),
                                                   FInt(5)),
                                 target  |-> Rat(10, 100)],
                   economy  |-> [current |->
                                   NpDiv(RiskSum(rr, {e.key : e \in Range(rr)}
                                                       \ (PremiumCodes \cup MidTierCodes)),
                                         FInt(n - 7)),
                                 target  |-> Rat(15, 100)]]]>>]

\* _set_occupancy_targets as it would be without the min(..., 0.95)
SetOccupancyTargetsNoCap(cur) ==
    [current_occupancy |-> cur.current_occupancy,
     target_occupancy  |-> FMul(cur.current_occupancy, Rat(110, 100)),
     by_class |-> [premium |-> Rat(90, 100), mid_tier |-> Rat(85, 100),
                   economy |-> Rat(80, 100)],
     overbooking_limits |-> [peak |-> Rat(115, 100),
                             off_peak |-> Rat(110, 100)]]

\* _set_occupancy_targets
SetOccupancyTargets(cur) ==
    [current_occupancy |-> cur.current_occupancy,
     target_occupancy  |-> FMin(FMul(cur.current_occupancy, Rat(110, 100)),
                                Rat(95, 100)),
     by_class |-> [premium |-> Rat(90, 100), mid_tier |-> Rat(85, 100),
                   economy |-> Rat(80, 100)],
     overbooking_limits |-> [peak |-> Rat(115, 100),
                             off_peak |-> Rat(110, 100)]]

-----------------------------------------------------------------------------
(* State.                                                                  *)

NoError == [kind |-> "", at |-> ""]

\* a field that is not computed yet is <<>>, a computed one is <<value>>
NoTargets ==
    [overall |-> <<>>, by_class |-> <<>>, by_time |-> <<>>,
     risk_targets |-> <<>>, occupancy_targets |-> <<>>]

Init ==
    /\ allocation \in Allocations
    /\ pricing \in PricingTables
    /\ pc = "start"
    /\ error = NoError
    /\ revenue_analysis = EmptyTable
    /\ sorted_classes = <<>>
    /\ pos = 0
    /\ time_slots = EmptySlots
    /\ current = <<>>
    /\ tiers = <<>>
    /\ targets = NoTargets
    /\ features_df = <<>>

\* analyze_revenue_potential called on its own; its table is what
\* QuantitativeTargets is constructed with
CallAnalyze ==
    /\ pc = "start"
    /\ LET r == AnalyzeRevenuePotential(allocation, pricing)
       IN  /\ revenue_analysis' = r.table
           /\ error' = [kind |-> r.raised, at |-> r.at]
           /\ pc' = IF r.raised = "" THEN "analyzed" ELSE "analyze_raised"
    /\ UNCHANGED <<allocation, pricing, features_df, schedVars, targetVars>>

\* suggest_class_consolidation
ConsolidationCall ==
    /\ pc = "start"
    /\ \E r \in SuggestClassConsolidation(allocation, pricing) :
          /\ features_df' = r.value
          /\ error' = [kind |-> r.raised, at |-> r.at]
          /\ pc' = IF r.raised = "" THEN "consolidation_returned"
                   ELSE "consolidation_raised"
    /\ UNCHANGED <<allocation, pricing, revenue_analysis, schedVars,
                   targetVars>>

\* optimize_peak_scheduling up to the loop: the analysis, the sort and
\* the four empty buckets.  An exception of the analysis propagates;
\* an empty table has no Revenue_per_Seat column to sort by (KeyError)
ScheduleCall ==
    /\ pc = "start"
    /\ LET r == AnalyzeRevenuePotential(allocation, pricing)
       IN  \/ /\ r.raised # ""
              /\ error' = [kind |-> r.raised, at |-> r.at]
              /\ pc' = "schedule_raised"
              /\ UNCHANGED <<revenue_analysis, sorted_classes, pos>>
           \/ /\ r.raised = ""
              /\ r.table.index = <<>>
              /\ error' = [kind |-> "KeyError", at |-> ""]
              /\ pc' = "schedule_raised"
              /\ UNCHANGED <<revenue_analysis, sorted_classes, pos>>
           \/ /\ r.raised = ""
              /\ r.table.index # <<>>
              /\ revenue_analysis' = r.table
              /\ sorted_classes' \in SortValues(r.table)
              /\ pos' = 1
              /\ pc' = "schedule_loop"
              /\ UNCHANGED error
    /\ time_slots' = EmptySlots
    /\ UNCHANGED <<allocation, pricing, features_df, targetVars>>

\* the iteration as it would be with the elif written as a second if: a
\* class above 1.2 is appended to a peak bucket and to Midday as well
ScheduleIterSecondIf ==
    /\ pc = "schedule_loop"
    /\ pos <= Len(sorted_classes)
    /\ LET booking_class == sorted_classes[pos]
           revenue_data  == Loc(revenue_analysis, booking_class)
           peak_ratio    == PeakRatio(revenue_data)
           slot == SlotFor(peak_ratio, Len(time_slots.Morning_Peak),
                           Len(sorted_classes))
           first == [time_slots EXCEPT ![slot] = Append(@, booking_class)]
       IN  time_slots' =
             IF FGt(peak_ratio, Rat(12, 10))
             THEN [first EXCEPT !.Midday = Append(@, booking_class)]
             ELSE first
    /\ pos' = pos + 1
    /\ UNCHANGED <<allocation, pricing, features_df, pc, error, revenue_analysis,
                   sorted_classes, targetVars>>

\* one iteration of the loop over sorted_classes.index
ScheduleIter ==
    /\ pc = "schedule_loop"
    /\ pos <= Len(sorted_classes)
    /\ LET booking_class == sorted_classes[pos]
           revenue_data  == Loc(revenue_analysis, booking_class)
           slot == SlotFor(PeakRatio(revenue_data),
                           Len(time_slots.Morning_Peak), Len(sorted_classes))
       IN  time_slots' =
             [time_slots EXCEPT ![slot] = Append(@, booking_class)]
    /\ pos' = pos + 1
    /\ UNCHANGED <<allocation, pricing, features_df, pc, error, revenue_analysis,
                   sorted_classes, targetVars>>

\* return time_slots
ScheduleReturn ==
    /\ pc = "schedule_loop"
    /\ pos > Len(sorted_classes)
    /\ pc' = "schedule_returned"
    /\ UNCHANGED <<allocation, pricing, features_df, error, revenue_analysis,
                   schedVars, targetVars>>

\* calculate_revenue_targets, line by line, on the table of the analysis.
\* First current_metrics = self.analyze_current_performance()
TargetsCurrent ==
    /\ pc = "analyzed"
    /\ LET r == AnalyzeCurrentPerformance(revenue_analysis, allocation, pricing)
       IN  /\ current' = r.value
           /\ error' = [kind |-> r.raised, at |-> ""]
           /\ pc' = IF r.raised = "" THEN "targets_overall"
                    ELSE "targets_raised"
    /\ UNCHANGED <<allocation, pricing, features_df, revenue_analysis, schedVars, tiers,
                   targets>>

\* "overall": self._set_overall_targets(current_metrics)
TargetsOverall ==
    /\ pc = "targets_overall"
    /\ targets' = [targets EXCEPT !.overall = <<SetOverallTargets(current[1])>>]
    /\ pc' = "targets_by_class"
    /\ UNCHANGED <<allocation, pricing, features_df, error, revenue_analysis, schedVars,
                   current, tiers>>

\* "by_class": self._set_class_targets(current_metrics); an exception
\* leaves calculate_revenue_targets, and the dict under construction with it
TargetsByClass ==
    /\ pc = "targets_by_class"
    /\ tiers' = <<ClassTiers(current[1])>>
    /\ LET r == SetClassTargets(current[1])
       IN  /\ error' = [kind |-> r.raised, at |-> r.at]
           /\ targets' = IF r.raised = ""
                         THEN [targets EXCEPT !.by_class = r.value]
                         ELSE NoTargets
           /\ pc' = IF r.raised = "" THEN "targets_by_time"
                    ELSE "targets_raised"
    /\ UNCHANGED <<allocation, pricing, features_df, revenue_analysis, schedVars, current>>

\* "by_time": self._set_time_targets(current_metrics)
TargetsByTime ==
    /\ pc = "targets_by_time"
    /\ targets' = [targets EXCEPT !.by_time = <<SetTimeTargets(current[1])>>]
    /\ pc' = "targets_risk"
    /\ UNCHANGED <<allocation, pricing, features_df, error, revenue_analysis, schedVars,
                   current, tiers>>

\* "risk_targets": self._set_risk_targets(current_metrics)
TargetsRisk ==
    /\ pc = "targets_risk"
    /\ LET r == SetRiskTargets(current[1])
       IN  /\ error' = [kind |-> r.raised, at |-> ""]
           /\ targets' = IF r.raised = ""
                         THEN [targets EXCEPT !.risk_targets = r.value]
                         ELSE NoTargets
           /\ pc' = IF r.raised = "" THEN "targets_occupancy"
                    ELSE "targets_raised"
    /\ UNCHANGED <<allocation, pricing, features_df, revenue_analysis, schedVars, current,
                   tiers>>

\* "occupancy_targets": self._set_occupancy_targets(current_metrics),
\* and return targets
TargetsOccupancy ==
    /\ pc = "targets_occupancy"
    /\ targets' = [targets EXCEPT
                     !.occupancy_targets = <<SetOccupancyTargets(current[1])>>]
    /\ pc' = "targets_returned"
    /\ UNCHANGED <<allocation, pricing, features_df, error, revenue_analysis, schedVars,
                   current, tiers>>

Next ==
    \/ CallAnalyze
    \/ ConsolidationCall
    \/ ScheduleCall
    \/ ScheduleIter
    \/ ScheduleReturn
    \/ TargetsCurrent
    \/ TargetsOverall
    \/ TargetsByClass
    \/ TargetsByTime
    \/ TargetsRisk
    \/ TargetsOccupancy

Spec == Init /\ [][Next]_vars

-----------------------------------------------------------------------------
(* Properties.                                                             *)

AllocatedClasses == Range(Keys(allocation))

\* how often class c occurs in the four buckets together
Occurrences(c) ==
    LET In(slot) == Cardinality({i \in 1..Len(time_slots[slot]) :
                                   time_slots[slot][i] = c})
    IN  In("Morning_Peak") + In("Midday") + In("Evening_Peak") + In("Off_Peak")

\* C1: when optimize_peak_scheduling returns, every allocated class is in
\* exactly one of the four buckets, exactly once, and no class outside
\* the allocation is in any bucket
C1_BucketsPartitionAllocation ==
    pc = "schedule_returned" =>
        \A c \in ClassSet :
            Occurrences(c) = IF c \in AllocatedClasses THEN 1 ELSE 0

\* a return with four allocated classes spread over three buckets or more
C1_Witness ==
    /\ pc = "schedule_returned"
    /\ Len(allocation) = 4
    /\ Cardinality({slot \in SlotNames : time_slots[slot] # <<>>}) >= 3

\* Peak_Revenue / Off_Peak_Revenue of a table row exceeds a / b; both
\* revenues are finite and the divisor is not 0
RatioAbove(row, a, b) ==
    LET P == row.Peak_Revenue
        O == row.Off_Peak_Revenue
    IN  \/ O.n > 0 /\ b * P.n * O.d > a * O.n * P.d
        \/ O.n < 0 /\ b * P.n * O.d < a * O.n * P.d

RatioEquals(row, a, b) ==
    LET P == row.Peak_Revenue
        O == row.Off_Peak_Revenue
    IN  O.n # 0 /\ b * P.n * O.d = a * O.n * P.d

\* the bucket the rules of C2 give the class of this row
RuleSlot(row, morning_len, total) ==
    IF RatioAbove(row, 6, 5)
    THEN (IF morning_len < total \div 4 THEN "Morning_Peak"
          ELSE "Evening_Peak")
    ELSE IF RatioAbove(row, 11, 10) THEN "Midday"
    ELSE "Off_Peak"

\* C2: each iteration puts its class, when its peak_ratio is a number
\* (Off_Peak_Revenue is not 0), at the end of the bucket the rules name
\* and changes no other bucket: above 1.2 Morning_Peak while it holds
\* fewer than floor(total / 4) classes and Evening_Peak otherwise, above
\* 1.1 and up to 1.2 Midday, up to 1.1 Off_Peak
C2_PlacementRules ==
    [][ (pc = "schedule_loop" /\ pos <= Len(sorted_classes)) =>
          LET c   == sorted_classes[pos]
              row == Loc(revenue_analysis, c)
          IN  row.Off_Peak_Revenue.n # 0 =>
                time_slots' =
                  [time_slots EXCEPT
                     ![RuleSlot(row, Len(time_slots.Morning_Peak),
                                Len(sorted_classes))] = Append(@, c)] ]_vars

\* a return with a class in each bucket, the one in Midday with a ratio of
\* exactly 1.2 and the one in Off_Peak with a ratio of exactly 1.1
C2_Witness ==
    /\ pc = "schedule_returned"
    /\ \A i \in 1..Len(revenue_analysis.rows) :
          revenue_analysis.rows[i].Off_Peak_Revenue.n # 0
    /\ time_slots.Morning_Peak # <<>>
    /\ time_slots.Evening_Peak # <<>>
    /\ \E i \in 1..Len(time_slots.Midday) :
          RatioEquals(Loc(revenue_analysis, time_slots.Midday[i]), 6, 5)
    /\ \E i \in 1..Len(time_slots.Off_Peak) :
          RatioEquals(Loc(revenue_analysis, time_slots.Off_Peak[i]), 11, 10)

\* Revenue_per_Seat of the class at position i of sorted_classes
SortedKey(i) == Loc(revenue_analysis, sorted_classes[i]).Revenue_per_Seat

\* C3: the classes are visited in descending Revenue_per_Seat order, and
\* classes with equal Revenue_per_Seat in ascending identifier order
C3_TiesInIdentifierOrder ==
    pc \in {"schedule_loop", "schedule_returned"} =>
        \A i, j \in 1..Len(sorted_classes) :
            i < j =>
                /\ ~SortsBefore(SortedKey(j), SortedKey(i))
                /\ FEq(SortedKey(i), SortedKey(j)) =>
                       Rank(sorted_classes[i]) < Rank(sorted_classes[j])

\* the half of C3 that the sort provides: descending order, nan last
SortedDescending ==
    pc \in {"schedule_loop", "schedule_returned"} =>
        \A i, j \in 1..Len(sorted_classes) :
            i < j => ~SortsBefore(SortedKey(j), SortedKey(i))

\* the allocation gives some class no seats
HasZeroSeats == \E i \in 1..Len(allocation) : allocation[i].seats = 0

\* C4: analyze_revenue_potential returns no table for an allocation with
\* a class of 0 seats, and no table it returns holds a Revenue_per_Seat
\* that is nan or infinite
C4_ZeroSeatsFailExplicitly ==
    pc = "analyzed" =>
        /\ ~HasZeroSeats
        /\ \A i \in 1..Len(revenue_analysis.rows) :
              revenue_analysis.rows[i].Revenue_per_Seat.k = "num"

\* the allocated classes without a pricing record
Unpriced ==
    {c \in AllocatedClasses :
        \A i \in 1..Len(pricing) : pricing[i].Booking_Class # c}

\* the first key of the allocation without a pricing record
FirstUnpriced ==
    allocation[CHOOSE i \in 1..Len(allocation) :
                  /\ allocation[i].cls \in Unpriced
                  /\ \A j \in 1..(i - 1) : allocation[j].cls \notin Unpriced].cls

Placed == UNION {Range(time_slots[slot]) : slot \in SlotNames}

\* C6: optimize_peak_scheduling puts no class with Off_Peak_Revenue = 0
\* in a bucket; it fails with UndefinedRatioError instead
C6_UndefinedRatioFails ==
    \A c \in Placed : Loc(revenue_analysis, c).Off_Peak_Revenue.n # 0

\* the allocation and the pricing of the scenario of C7
IsScenario ==
    /\ allocation = <<[cls |-> "Y", seats |-> 100], [cls |-> "J", seats |-> 20]>>
    /\ \E i \in 1..Len(pricing) :
          pricing[i] = PricingRecord("Y", 200, 260, 150, 10)
    /\ \E i \in 1..Len(pricing) :
          pricing[i] = PricingRecord("J", 500, 650, 400, 5)

\* C7: on the scenario, calculate_revenue_targets returns a targets dict
\* with current_daily_revenue 27500 and target_daily_revenue 31625
C7_ScenarioTargets ==
    (IsScenario /\ pc \in {"targets_raised", "targets_returned"}) =>
        /\ pc = "targets_returned"
        /\ targets.overall # <<>>
        /\ targets.overall[1].current_daily_revenue = FInt(27500)
        /\ targets.overall[1].target_daily_revenue = FInt(31625)

\* the number of tiers that hold class c
TiersHolding(c) ==
    Cardinality({t \in Range(TierOrder) :
                   \E i \in 1..Len(tiers[1][t]) : tiers[1][t][i].key = c})

\* C8: the tiers _set_class_targets forms hold every class of the table
\* exactly once: each class is in exactly one of premium, mid_tier, economy
C8_TiersPartition ==
    tiers # <<>> => \A c \in AllocatedClasses : TiersHolding(c) = 1

\* what the code does provide: a class whose Revenue_per_Seat is a number
\* is in exactly one tier, a class whose Revenue_per_Seat is nan in none
TiersPartitionNumbers ==
    tiers # <<>> =>
        \A c \in AllocatedClasses :
            TiersHolding(c) =
                IF IsNaN(Loc(revenue_analysis, c).Revenue_per_Seat) THEN 0 ELSE 1

\* C9: with a tier without members, calculate_revenue_targets does not end
\* in the ZeroDivisionError of the average: it fails with EmptyGroupError
\* or returns
C9_EmptyTierHandled ==
    (tiers # <<>> /\ EmptyTiers(tiers[1]) # <<>>) =>
        \/ pc = "targets_raised" /\ error.kind = "EmptyGroupError"
        \/ pc # "targets_raised"

TotalSeats == ISum([i \in 1..Len(allocation) |-> allocation[i].seats])

\* C10: target_occupancy is min(current_occupancy * 1.10, 0.95) with
\* current_occupancy = sum(seats) / 400, so it is 11 * sum(seats) / 4000
\* up to 3800 / 4000 and never more
C10_TargetOccupancyCapped ==
    targets.occupancy_targets # <<>> =>
        LET t == targets.occupancy_targets[1].target_occupancy
            capped == IF 11 * TotalSeats < 3800 THEN 11 * TotalSeats ELSE 3800
        IN  /\ t.k = "num"
            /\ t.n * 4000 = capped * t.d
            /\ t.n * 100 <= 95 * t.d

\* occupancy targets of an allocation of more than 400 seats
C10_Witness ==
    /\ targets.occupancy_targets # <<>>
    /\ TotalSeats > 400

\* the pricing record the analysis used for the class at row i
RowPricing(i) == PricingRows(pricing, revenue_analysis.index[i])[1]

\* n / d of a double equals the quotient num / den of two integers, den > 0
IsQuotient(x, num, den) == x.k = "num" /\ x.n * den = num * x.d

\* C11: in a table analyze_revenue_potential returns, a class with
\* peak_price >= off_peak_price > 0 and a risk factor r in [0, 1] has
\* Peak_Revenue = seats * peak_price * (1 - 0.8 r), Off_Peak_Revenue =
\* seats * off_peak_price * (1 - 1.2 r), Peak_Revenue >= Off_Peak_Revenue
\* and Revenue_Range = Peak_Revenue - Off_Peak_Revenue >= 0
C11_PeakNotBelowOffPeak ==
    \A i \in 1..Len(revenue_analysis.index) :
        LET rec   == RowPricing(i)
            row   == revenue_analysis.rows[i]
            r     == rec.Risk_Factor
            seats == allocation[i].seats
            P     == row.Peak_Revenue
            O     == row.Off_Peak_Revenue
            G     == row.Revenue_Range
        IN  ( /\ rec.Peak_Price >= rec.Off_Peak_Price
              /\ rec.Off_Peak_Price > 0
              /\ 0 <= r.n /\ r.n <= r.d ) =>
                /\ IsQuotient(P, seats * rec.Peak_Price * (10 * r.d - 8 * r.n),
                              10 * r.d)
                /\ IsQuotient(O, seats * rec.Off_Peak_Price
                                       * (10 * r.d - 12 * r.n), 10 * r.d)
                /\ P.n * O.d >= O.n * P.d
                /\ G.k = "num" /\ G.n >= 0
                /\ G.n * P.d * O.d = (P.n * O.d - O.n * P.d) * G.d

\* a returned table with a class whose risk factor makes the off-peak
\* discount exceed the whole off-peak revenue (Off_Peak_Revenue < 0), and
\* a class with risk factor 0
C11_Witness ==
    /\ pc = "analyzed"
    /\ \E i \in 1..Len(revenue_analysis.index) :
          /\ revenue_analysis.rows[i].Off_Peak_Revenue.n < 0
          /\ revenue_analysis.rows[i].Peak_Revenue.n > 0
    /\ \E i \in 1..Len(revenue_analysis.index) :
          /\ revenue_analysis.rows[i].Risk_Factor.n = 0
          /\ revenue_analysis.rows[i].Off_Peak_Revenue.n > 0

\* C12: for a non-empty allocation of n classes, each with a pricing
\* record, suggest_class_consolidation returns an assignment that gives
\* every allocated class exactly one cluster id, each id in [0, k) with
\* k = min(5, n); it does not fail when n < 5
C12_ClusterAssignmentClamped ==
    ( /\ pc \in {"consolidation_returned", "consolidation_raised"}
      /\ Len(allocation) >= 1
      /\ Unpriced = {} ) =>
        /\ pc = "consolidation_returned"
        /\ \A c \in AllocatedClasses :
              Cardinality({i \in 1..Len(features_df) :
                             features_df[i].Booking_Class = c}) = 1
        /\ \A i \in 1..Len(features_df) :
              /\ features_df[i].Booking_Class \in AllocatedClasses
              /\ features_df[i].Cluster >= 0
              /\ features_df[i].Cluster < 5
              /\ features_df[i].Cluster < Len(allocation)

\* Revenue_per_Seat of a class in the table of the pass
RevenuePerSeat(c) == Loc(revenue_analysis, c).Revenue_per_Seat

\* C13: at every step of the pass over the n sorted classes Morning_Peak
\* holds at most floor(n / 4) classes; Evening_Peak is non-empty only
\* when Morning_Peak holds exactly floor(n / 4); every class in
\* Morning_Peak has a Revenue_per_Seat at least that of every class in
\* Evening_Peak; for n < 4 Morning_Peak stays empty
C13_MorningQuota ==
    pc \in {"schedule_loop", "schedule_returned"} =>
        LET n == Len(sorted_classes)
            morning == time_slots.Morning_Peak
            evening == time_slots.Evening_Peak
        IN  /\ Len(morning) <= n \div 4
            /\ evening # <<>> => Len(morning) = n \div 4
            /\ \A i \in 1..Len(morning) : \A j \in 1..Len(evening) :
                  FGe(RevenuePerSeat(morning[i]), RevenuePerSeat(evening[j]))
            /\ n < 4 => morning = <<>>

\* a finished pass over four classes with the quota of one class used
\* and a later class above 1.2 in Evening_Peak
C13_Witness ==
    /\ pc = "schedule_returned"
    /\ Len(sorted_classes) = 4
    /\ Len(time_slots.Morning_Peak) = 1
    /\ time_slots.Evening_Peak # <<>>

\* the risk factors of the pricing records whose class code is in codes
GroupRisks(codes) ==
    LET members == SelectSeq(pricing, LAMBDA rec : rec.Booking_Class \in codes)
    IN  [i \in 1..Len(members) |-> members[i].Risk_Factor]

\* the class codes of a group of by_class_type
GroupCodes(group) ==
    CASE group = "premium"  -> {"J", "Y"}
      [] group = "mid_tier" -> {"C", "B", "D", "W", "H"}
      [] group = "economy"  -> ClassSet \ {"J", "Y", "C", "B", "D", "W", "H"}

\* C14: once _set_risk_targets has returned, the current value of each
\* group (premium, mid_tier, economy) that has a pricing record is the
\* arithmetic mean of the risk factors of the group's pricing records:
\* their sum divided by their number, a defined number
C14_GroupCurrentIsMean ==
    targets.risk_targets # <<>> =>
        \A group \in {"premium", "mid_tier", "economy"} :
            LET risks == GroupRisks(GroupCodes(group))
                cur == targets.risk_targets[1].by_class_type[group].current
            IN  risks # <<>> =>
                    /\ cur.k = "num"
                    /\ FEq(cur, NpDiv(FSum(risks), FInt(Len(risks))))

====
